---- MODULE Spec2Model ----
(***************************************************************************)
(* Vendor payout lifecycle of the multi-vendor backend                     *)
(* (VendorPayoutService over the vendor_payouts and vendors tables).       *)
(*                                                                         *)
(* Every handler is an async function; each `await` of a store call is one *)
(* atomic step, and the steps of concurrent requests interleave freely.    *)
(* No handler opens a transaction, so nothing groups the steps of one      *)
(* handler.                                                                *)
(***************************************************************************)
EXTENDS Integers, FiniteSets, Sequences, TLC

(* ------------------------------ bounds -------------------------------- *)

\* number of requests the model lets the service receive
MaxRequests == 2

\* concurrent request slots
Procs == {"r1", "r2"}

(* --------------------------- store contents --------------------------- *)

Vendors == {"v1", "v2"}
Users == {"u1", "u2"}
PayoutIds == {"p1", "p2", "p3"}

PENDING == "PENDING"
COMPLETED == "COMPLETED"
REJECTED == "REJECTED"
PayoutStatus == {PENDING, COMPLETED, REJECTED}

\* SQL NULL of a TEXT column / of a TIMESTAMP column
NullText == "NULL"
NullDate == 0

\* a field a DTO does not carry (undefined)
Absent == "ABSENT"
AbsentNum == -1

\* the vendor's payable balance at the start (the ledger value of the vendor)
OpeningBalance == [v \in Vendors |-> IF v = "v1" THEN 500 ELSE 200]

\* rows of vendor_payouts present in the database the service is started on,
\* as an insert leaves them: status PENDING (column default), processedAt
\* NULL
OpeningPayouts ==
  [i \in PayoutIds |->
     [vendorId    |-> IF i = "p3" THEN "v2" ELSE "v1",
      requestedBy |-> IF i = "p3" THEN "u2" ELSE "u1",
      amount      |-> IF i = "p2" THEN 250 ELSE 300,
      reference   |-> "REF",
      status      |-> PENDING,
      processedAt |-> NullDate]]

\* a local that holds no row
NoRow == [vendorId |-> NullText, requestedBy |-> NullText, amount |-> 0,
          reference |-> NullText, status |-> PENDING, processedAt |-> NullDate]

\* rows of vendors present in the database the service is started on: each
\* vendor belongs to one user; status has the column default
OpeningVendors ==
  [v \in Vendors |->
     [ownerId |-> IF v = "v1" THEN "u1" ELSE "u2", status |-> "PENDING",
      name |-> IF v = "v1" THEN "Shop A" ELSE "Shop B",
      slug |-> IF v = "v1" THEN "shop-a" ELSE "shop-b"]]

\* const MIN_PAYOUT_AMOUNT = 10
MIN_PAYOUT_AMOUNT == 10

\* CreateVendorPayoutDto: a vendor that exists or not, an amount below the
\* minimum, within v1's balance, above every balance
UnknownVendor == "v9"
CreateVendorPayoutDto ==
  [vendorId : Vendors \cup {UnknownVendor}, amount : {5, 300, 600},
   reference : {"REF"}]

NoCreateDto == [vendorId |-> NullText, amount |-> 0, reference |-> NullText]

\* the id the store gives to an inserted payout row
NewPayoutId == "p4"

\* UpdateVendorPayoutDto: every field optional
DtoDate == 99
DtoAmount == 1
NoDto == [amount |-> AbsentNum, reference |-> Absent, status |-> Absent,
          processedAt |-> AbsentNum]

\* the requests the administrator sends to update: one field each, and a
\* completion that carries its own date
UpdateVendorPayoutDto ==
  {[NoDto EXCEPT !.status = st] : st \in PayoutStatus}
    \cup {[NoDto EXCEPT !.processedAt = d] : d \in {NullDate, DtoDate}}
    \cup {[NoDto EXCEPT !.amount = DtoAmount],
          [NoDto EXCEPT !.reference = "NEW"],
          [NoDto EXCEPT !.status = COMPLETED, !.processedAt = DtoDate]}

\* enum VendorStatus
VendorStatus == {"PENDING", "APPROVED", "REJECTED", "SUSPENDED"}

\* callers of the vendor endpoints: the two owners, a user without a
\* vendor, and the holder of a token whose user row is gone
Owners == Users \cup {"u3"}
UnknownUser == "u9"

\* ids the store generates for new vendors and products
NewVendorIds == {"v3", "v4"}
ProductIds == {"pr1", "pr2"}

\* CreateVendorDto: name is required, slug and status are optional (the
\* contact fields and commissionPct take no part in any guard)
CreateVendorDto ==
  [name : {"Shop A", "Shop C"}, slug : {Absent},
   status : {Absent} \cup VendorStatus]
NoVendorDto == [name |-> Absent, slug |-> Absent, status |-> Absent]

\* UpdateVendorDto: the two fields update() reads by name, each optional;
\* what else the class declares is spread into the write as it is
UpdateVendorDto ==
  [name : {Absent, "Shop D"}, slug : {Absent, "shop-b"}, status : {Absent}]

\* CreateProductDto: vendorId is required; brandId is optional and not sent
CreateProductDto == [vendorId : Vendors \cup {UnknownVendor}]

\* commission_settings rows are named by the stamp of their insertion; the
\* ids a request may ask for
SettingIds == 1 .. 3

\* the commission stores the service may be started on: a fresh
\* installation, one setting, a setting and a later reset
OpeningSettings ==
  {[i \in {} |-> 0],
   [i \in {1} |-> [commission |-> 10, updatedAt |-> 1]],
   [i \in {1, 2} |-> [commission |-> IF i = 1 THEN 10 ELSE 0,
                      updatedAt |-> i]]}

\* const MAX_ALLOWED_COMMISSION = 50
MAX_ALLOWED_COMMISSION == 50

\* CreateCommissionSettingDto.commission: @IsPositive() @Max(100)
CreateCommissionSettingDto == {10, 50, 60}

\* UpdateCommissionSettingDto.commission: optional
UpdateCommissionSettingDto == {AbsentNum, 10, 60}

\* the bodies of POST bulk: an array, which no pipe validates per element
BulkCreateDtos == {<< >>, <<20>>, <<20, 0>>, <<20, 120>>, <<-5>>}

(* ------------------------------ results ------------------------------- *)

\* BadRequestException('Commission must be between 0 and 100 percent')
InvalidCommission == "BadRequestException: Commission must be between 0 and 100"
\* BadRequestException(`Commission cannot exceed ${MAX_ALLOWED_COMMISSION}%`)
AboveCeiling == "BadRequestException: Commission cannot exceed 50%"
\* ConflictException('Commission setting already exists. Use update instead.')
AlreadyExists == "ConflictException: Commission setting already exists"

\* ConflictException (P2002 on vendors_slug_key)
Conflict == "ConflictException"
\* BadRequestException of the vendor and product handlers
OwnerMissing == "BadRequestException: Owner user does not exist"
AlreadyVendor == "BadRequestException: User already has a vendor account"
HasRows == "BadRequestException: Cannot delete vendor with associated rows"
CategoryMissing == "BadRequestException: Category does not exist"
ForeignKey == "BadRequestException: P2003"

Ok == "ok"
\* NotFoundException(`Payout with ID ${id} not found`) and P2025
NotFound == "NotFoundException"
\* ForbiddenException('You can only cancel your own payout requests')
Forbidden == "ForbiddenException"
\* BadRequestException('Only pending payouts can be approved|rejected|cancelled')
OnlyPending == "BadRequestException: Only pending payouts"
\* BadRequestException('Failed to update vendor balance')
BalanceFailed == "BadRequestException: Failed to update vendor balance"
\* InternalServerErrorException of PrismaErrorHandler.handleError
Internal == "InternalServerErrorException"
\* BadRequestException('Vendor does not exist')
VendorMissing == "BadRequestException: Vendor does not exist"
\* BadRequestException(`Minimum payout amount is $${MIN_PAYOUT_AMOUNT}`)
BelowMinimum == "BadRequestException: Minimum payout amount"
NoResult == "none"

(* ------------------------------- state -------------------------------- *)

VARIABLES
  payouts,   \* vendor_payouts: [existing ids -> row]
  balance,   \* the vendors' payable balance
  now,       \* the clock (new Date()); it advances with every request
  req,       \* per request slot: position and locals of the running handler
  completedAmount,  \* history: per vendor, the amounts that entered COMPLETED
  vendors,   \* vendors: [existing ids -> row]
  products,  \* products: [existing ids -> row]
  vendorOrders,  \* vendor_orders: [existing ids -> row]
  settings,  \* commission_settings: [existing ids -> row]
  tick       \* the last updatedAt the store has stamped on a setting

vars == <<payouts, balance, now, req, completedAmount, vendors, products,
          vendorOrders, settings, tick>>

\* the commission policy store
commissionStore == <<settings, tick>>

\* the tables the payout endpoints do not write
others == <<vendors, products, vendorOrders, settings, tick>>

Idle == [pc |-> "idle", op |-> "none", id |-> "none", userId |-> NullText,
         reason |-> Absent, payout |-> NoRow, updateData |-> NoDto,
         ids |-> {}, moved |-> {}, vendorUpdates |-> [v \in {} |-> 0],
         createDto |-> NoCreateDto, isAdmin |-> FALSE,
         vendorDto |-> NoVendorDto, settingId |-> 0,
         commission |-> AbsentNum, fromDate |-> AbsentNum,
         toDate |-> AbsentNum, startedAt |-> 0, value |-> <<>>,
         result |-> NoResult]

Init ==
  /\ payouts = OpeningPayouts
  /\ balance = OpeningBalance
  /\ now = 0
  /\ req = [p \in Procs |-> Idle]
  /\ completedAmount = [v \in Vendors |-> 0]
  /\ vendors = OpeningVendors
  /\ products = [i \in {} |-> 0]
  /\ vendorOrders = [i \in {} |-> 0]
  /\ settings = [i \in {} |-> 0]
  /\ tick = 0

\* a slot accepts a new request
CanStart(p) == req[p].pc \in {"idle", "done"} /\ now < MaxRequests

Begin(p, op, id) == [Idle EXCEPT !.op = op, !.id = id]

\* the handler returns a body: its locals die, the response remains
FinishValue(r, result, value) ==
  [Idle EXCEPT !.pc = "done", !.op = r.op, !.id = r.id, !.userId = r.userId,
               !.settingId = r.settingId, !.commission = r.commission,
               !.fromDate = r.fromDate, !.toDate = r.toDate,
               !.startedAt = r.startedAt,
               !.result = result, !.value = value]

\* the handler returns or throws: its locals die, the response remains
Finish(r, result) ==
  [Idle EXCEPT !.pc = "done", !.op = r.op, !.id = r.id, !.userId = r.userId,
               !.result = result]

(* --------------------------- store helpers ---------------------------- *)

\* Every store call may throw (connection loss, lock timeout): the handlers
\* take that as `storeOk = FALSE`.  updateVendorBalance turns it into
\* BadRequestException('Failed to update vendor balance'), every other call
\* site hands it to PrismaErrorHandler.handleError.  A write whose row is
\* gone throws P2025, which handleError maps to NotFoundException.

RECURSIVE SumAmounts(_, _)
\* sum of the amount column over the rows ids of table t
SumAmounts(t, ids) ==
  IF ids = {} THEN 0
  ELSE LET i == CHOOSE x \in ids : TRUE
       IN t[i].amount + SumAmounts(t, ids \ {i})


\* prisma.vendorPayout.update({ where: { id }, data })
RowUpdate(id, row) == [payouts EXCEPT ![id] = row]

\* prisma.vendorPayout.delete({ where: { id } })
RowDelete(id) == [i \in DOMAIN payouts \ {id} |-> payouts[i]]

\* updateVendorBalance: prisma.vendor.update({ where: { id }, data: {} });
\* the `balance: { increment: amount }` entry of data is commented out, so
\* the call writes no column
updateVendorBalance(vendorId, amount) == balance

\* the guard of approve, reject and cancel:
\* payout.status !== PayoutStatus.PENDING
NotPending_OnlyCompleted(payout) == payout.status = COMPLETED

NotPending(payout) == payout.status # PENDING

\* the amounts that entered COMPLETED in the step from table t to table u,
\* added to the running total per vendor
Completions(t, u) ==
  [v \in Vendors |->
     completedAmount[v] +
       SumAmounts(u, {i \in DOMAIN t \cap DOMAIN u :
                        /\ u[i].vendorId = v
                        /\ t[i].status # COMPLETED
                        /\ u[i].status = COMPLETED})]

(* ------------------------------ approve ------------------------------- *)

\* approve(id): findUnique and the two guards
ApproveFind(p, id) ==
  /\ CanStart(p)
  /\ UNCHANGED others
  /\ now' = now + 1
  /\ UNCHANGED <<payouts, balance, completedAmount>>
  /\ \E storeOk \in BOOLEAN :
       LET r == Begin(p, "approve", id) IN
       req' = [req EXCEPT ![p] =
         IF ~storeOk THEN Finish(r, Internal)
         ELSE IF id \notin DOMAIN payouts THEN Finish(r, NotFound)
         ELSE IF NotPending(payouts[id]) THEN Finish(r, OnlyPending)
         ELSE [r EXCEPT !.pc = "approve_update", !.payout = payouts[id]]]

\* approve: vendorPayout.update({ status: COMPLETED, processedAt: new Date() })
ApproveUpdate(p) ==
  /\ req[p].pc = "approve_update"
  /\ UNCHANGED others
  /\ UNCHANGED <<balance, now>>
  /\ \E storeOk \in BOOLEAN :
       LET id == req[p].id IN
       IF ~storeOk
       THEN /\ req' = [req EXCEPT ![p] = Finish(@, Internal)]
            /\ UNCHANGED payouts
       ELSE IF id \notin DOMAIN payouts
       THEN /\ req' = [req EXCEPT ![p] = Finish(@, NotFound)]
            /\ UNCHANGED payouts
       ELSE /\ payouts' = RowUpdate(id, [payouts[id] EXCEPT
                             !.status = COMPLETED, !.processedAt = now])
            /\ req' = [req EXCEPT ![p] = [@ EXCEPT !.pc = "approve_balance"]]
  /\ completedAmount' = Completions(payouts, payouts')

\* approve: updateVendorBalance(payout.vendorId, -payout.amount)
ApproveBalance(p) ==
  /\ req[p].pc = "approve_balance"
  /\ UNCHANGED others
  /\ UNCHANGED <<payouts, now, completedAmount>>
  /\ \E storeOk \in BOOLEAN :
       IF ~storeOk
       THEN /\ req' = [req EXCEPT ![p] = Finish(@, BalanceFailed)]
            /\ UNCHANGED balance
       ELSE /\ balance' = updateVendorBalance(req[p].payout.vendorId,
                                              0 - req[p].payout.amount)
            /\ req' = [req EXCEPT ![p] = Finish(@, Ok)]

(* ------------------------------- reject ------------------------------- *)

Reasons == {Absent, "late"}

\* reject(id, reason): findUnique and the two guards
RejectFind(p, id, reason) ==
  /\ CanStart(p)
  /\ UNCHANGED others
  /\ now' = now + 1
  /\ UNCHANGED <<payouts, balance, completedAmount>>
  /\ \E storeOk \in BOOLEAN :
       LET r == [Begin(p, "reject", id) EXCEPT !.reason = reason] IN
       req' = [req EXCEPT ![p] =
         IF ~storeOk THEN Finish(r, Internal)
         ELSE IF id \notin DOMAIN payouts THEN Finish(r, NotFound)
         ELSE IF NotPending(payouts[id]) THEN Finish(r, OnlyPending)
         ELSE [r EXCEPT !.pc = "reject_update", !.payout = payouts[id]]]

\* reference: reason ? `Rejected: ${reason}` : payout.reference
RejectReference(reason, payout) ==
  IF reason # Absent THEN "Rejected: " \o reason ELSE payout.reference

\* a reject that stamps processedAt as approve does
RejectUpdate_StampsProcessedAt(p) ==
  /\ req[p].pc = "reject_update"
  /\ UNCHANGED others
  /\ UNCHANGED <<balance, now>>
  /\ \E storeOk \in BOOLEAN :
       LET id == req[p].id IN
       IF ~storeOk
       THEN /\ req' = [req EXCEPT ![p] = Finish(@, Internal)]
            /\ UNCHANGED payouts
       ELSE IF id \notin DOMAIN payouts
       THEN /\ req' = [req EXCEPT ![p] = Finish(@, NotFound)]
            /\ UNCHANGED payouts
       ELSE /\ payouts' = RowUpdate(id, [payouts[id] EXCEPT
                             !.status = REJECTED,
                             !.processedAt = now,
                             !.reference = RejectReference(req[p].reason,
                                                           req[p].payout)])
            /\ req' = [req EXCEPT ![p] = Finish(@, Ok)]
  /\ completedAmount' = Completions(payouts, payouts')

\* reject: vendorPayout.update({ status: REJECTED, reference })
RejectUpdate(p) ==
  /\ req[p].pc = "reject_update"
  /\ UNCHANGED others
  /\ UNCHANGED <<balance, now>>
  /\ \E storeOk \in BOOLEAN :
       LET id == req[p].id IN
       IF ~storeOk
       THEN /\ req' = [req EXCEPT ![p] = Finish(@, Internal)]
            /\ UNCHANGED payouts
       ELSE IF id \notin DOMAIN payouts
       THEN /\ req' = [req EXCEPT ![p] = Finish(@, NotFound)]
            /\ UNCHANGED payouts
       ELSE /\ payouts' = RowUpdate(id, [payouts[id] EXCEPT
                             !.status = REJECTED,
                             !.reference = RejectReference(req[p].reason,
                                                           req[p].payout)])
            /\ req' = [req EXCEPT ![p] = Finish(@, Ok)]
  /\ completedAmount' = Completions(payouts, payouts')

(* ------------------------------- cancel ------------------------------- *)

\* cancel(id, userId): findUnique and the three guards
CancelFind(p, id, userId) ==
  /\ CanStart(p)
  /\ UNCHANGED others
  /\ now' = now + 1
  /\ UNCHANGED <<payouts, balance, completedAmount>>
  /\ \E storeOk \in BOOLEAN :
       LET r == [Begin(p, "cancel", id) EXCEPT !.userId = userId] IN
       req' = [req EXCEPT ![p] =
         IF ~storeOk THEN Finish(r, Internal)
         ELSE IF id \notin DOMAIN payouts THEN Finish(r, NotFound)
         ELSE IF payouts[id].requestedBy # userId THEN Finish(r, Forbidden)
         ELSE IF NotPending(payouts[id]) THEN Finish(r, OnlyPending)
         ELSE [r EXCEPT !.pc = "cancel_delete", !.payout = payouts[id]]]

\* cancel: vendorPayout.delete({ where: { id } })
CancelDelete(p) ==
  /\ req[p].pc = "cancel_delete"
  /\ UNCHANGED others
  /\ UNCHANGED <<balance, now>>
  /\ \E storeOk \in BOOLEAN :
       LET id == req[p].id IN
       IF ~storeOk
       THEN /\ req' = [req EXCEPT ![p] = Finish(@, Internal)]
            /\ UNCHANGED payouts
       ELSE IF id \notin DOMAIN payouts
       THEN /\ req' = [req EXCEPT ![p] = Finish(@, NotFound)]
            /\ UNCHANGED payouts
       ELSE /\ payouts' = RowDelete(id)
            /\ req' = [req EXCEPT ![p] = Finish(@, Ok)]
  /\ completedAmount' = Completions(payouts, payouts')

(* ------------------------------- remove ------------------------------- *)

\* remove(id): findUnique and the guard
RemoveFind(p, id) ==
  /\ CanStart(p)
  /\ UNCHANGED others
  /\ now' = now + 1
  /\ UNCHANGED <<payouts, balance, completedAmount>>
  /\ \E storeOk \in BOOLEAN :
       LET r == Begin(p, "remove", id) IN
       req' = [req EXCEPT ![p] =
         IF ~storeOk THEN Finish(r, Internal)
         ELSE IF id \notin DOMAIN payouts THEN Finish(r, NotFound)
         ELSE [r EXCEPT !.pc = "remove_delete", !.payout = payouts[id]]]

\* remove: vendorPayout.delete({ where: { id } })
RemoveDelete(p) ==
  /\ req[p].pc = "remove_delete"
  /\ UNCHANGED others
  /\ UNCHANGED <<balance, now>>
  /\ \E storeOk \in BOOLEAN :
       LET id == req[p].id IN
       IF ~storeOk
       THEN /\ req' = [req EXCEPT ![p] = Finish(@, Internal)]
            /\ UNCHANGED payouts
       ELSE IF id \notin DOMAIN payouts
       THEN /\ req' = [req EXCEPT ![p] = Finish(@, NotFound)]
            /\ UNCHANGED payouts
       ELSE /\ payouts' = RowDelete(id)
            /\ req' = [req EXCEPT ![p] = Finish(@, Ok)]
  /\ completedAmount' = Completions(payouts, payouts')

(* ------------------------------- update ------------------------------- *)

\* data: updateData applied to the row; absent fields keep the column
ApplyUpdateData(row, d) ==
  [row EXCEPT
     !.amount      = IF d.amount = AbsentNum THEN @ ELSE d.amount,
     !.reference   = IF d.reference = Absent THEN @ ELSE d.reference,
     !.status      = IF d.status = Absent THEN @ ELSE d.status,
     !.processedAt = IF d.processedAt = AbsentNum THEN @ ELSE d.processedAt]

\* the condition that stamps processedAt and calls updateVendorBalance
CompletesNow(dto, existingPayout) ==
  dto.status = COMPLETED /\ existingPayout.processedAt = NullDate

\* update(id, dto, isAdmin = true): findUnique, guard, updateData
UpdateFind(p, id, dto) ==
  /\ CanStart(p)
  /\ UNCHANGED others
  /\ now' = now + 1
  /\ UNCHANGED <<payouts, balance, completedAmount>>
  /\ \E storeOk \in BOOLEAN :
       LET r == Begin(p, "update", id) IN
       req' = [req EXCEPT ![p] =
         IF ~storeOk THEN Finish(r, Internal)
         ELSE IF id \notin DOMAIN payouts THEN Finish(r, NotFound)
         ELSE IF CompletesNow(dto, payouts[id])
         THEN [r EXCEPT !.pc = "update_balance", !.payout = payouts[id],
                        !.updateData = [dto EXCEPT !.processedAt = now]]
         ELSE [r EXCEPT !.pc = "update_write", !.payout = payouts[id],
                        !.updateData = dto]]

\* update: updateVendorBalance(existingPayout.vendorId, -existingPayout.amount)
UpdateBalance(p) ==
  /\ req[p].pc = "update_balance"
  /\ UNCHANGED others
  /\ UNCHANGED <<payouts, now, completedAmount>>
  /\ \E storeOk \in BOOLEAN :
       IF ~storeOk
       THEN /\ req' = [req EXCEPT ![p] = Finish(@, BalanceFailed)]
            /\ UNCHANGED balance
       ELSE /\ balance' = updateVendorBalance(req[p].payout.vendorId,
                                              0 - req[p].payout.amount)
            /\ req' = [req EXCEPT ![p] = [@ EXCEPT !.pc = "update_write"]]

\* update: vendorPayout.update({ where: { id }, data: updateData })
UpdateWrite(p) ==
  /\ req[p].pc = "update_write"
  /\ UNCHANGED others
  /\ UNCHANGED <<balance, now>>
  /\ \E storeOk \in BOOLEAN :
       LET id == req[p].id IN
       IF ~storeOk
       THEN /\ req' = [req EXCEPT ![p] = Finish(@, Internal)]
            /\ UNCHANGED payouts
       ELSE IF id \notin DOMAIN payouts
       THEN /\ req' = [req EXCEPT ![p] = Finish(@, NotFound)]
            /\ UNCHANGED payouts
       ELSE /\ payouts' = RowUpdate(id, ApplyUpdateData(payouts[id],
                                                        req[p].updateData))
            /\ req' = [req EXCEPT ![p] = Finish(@, Ok)]
  /\ completedAmount' = Completions(payouts, payouts')

(* ----------------------------- bulkApprove ---------------------------- *)

\* where: { id: { in: ids }, status }
IdsWithStatus(t, ids, status) ==
  {i \in ids \cap DOMAIN t : t[i].status = status}

\* payouts.reduce(...): the amounts of the selected rows grouped by vendorId
VendorUpdates(t, sel) ==
  [v \in {t[i].vendorId : i \in sel} |->
     SumAmounts(t, {i \in sel : t[i].vendorId = v})]

\* bulkApprove(ids): vendorPayout.updateMany(PENDING -> COMPLETED)
BulkUpdateMany(p, ids) ==
  /\ CanStart(p)
  /\ UNCHANGED others
  /\ now' = now + 1
  /\ UNCHANGED balance
  /\ \E storeOk \in BOOLEAN :
       LET r == [Begin(p, "bulkApprove", "none") EXCEPT !.ids = ids]
           hit == IdsWithStatus(payouts, ids, PENDING)
       IN IF ~storeOk
          THEN /\ req' = [req EXCEPT ![p] = Finish(r, Internal)]
               /\ UNCHANGED payouts
          ELSE /\ payouts' = [i \in DOMAIN payouts |->
                   IF i \in hit
                   THEN [payouts[i] EXCEPT !.status = COMPLETED,
                                           !.processedAt = now]
                   ELSE payouts[i]]
               /\ req' = [req EXCEPT ![p] =
                   [r EXCEPT !.pc = "bulk_find", !.moved = hit]]
  /\ completedAmount' = Completions(payouts, payouts')

\* bulkApprove: vendorPayout.findMany(COMPLETED among ids) and the grouping
BulkFindMany(p) ==
  /\ req[p].pc = "bulk_find"
  /\ UNCHANGED others
  /\ UNCHANGED <<payouts, balance, now, completedAmount>>
  /\ \E storeOk \in BOOLEAN :
       LET sel == IdsWithStatus(payouts, req[p].ids, COMPLETED)
           vu == VendorUpdates(payouts, sel)
       IN req' = [req EXCEPT ![p] =
            IF ~storeOk THEN Finish(@, Internal)
            ELSE IF DOMAIN vu = {}
            THEN Finish([@ EXCEPT !.vendorUpdates = vu], Ok)
            ELSE [@ EXCEPT !.pc = "bulk_balance", !.vendorUpdates = vu]]

\* bulkApprove: one pass of the loop over Object.entries(vendorUpdates)
BulkBalance(p) ==
  /\ req[p].pc = "bulk_balance"
  /\ UNCHANGED others
  /\ UNCHANGED <<payouts, now, completedAmount>>
  /\ \E v \in DOMAIN req[p].vendorUpdates, storeOk \in BOOLEAN :
       LET rest == [w \in DOMAIN req[p].vendorUpdates \ {v} |->
                      req[p].vendorUpdates[w]]
       IN IF ~storeOk
          THEN /\ req' = [req EXCEPT ![p] = Finish(@, BalanceFailed)]
               /\ UNCHANGED balance
          ELSE /\ balance' = updateVendorBalance(v,
                                0 - req[p].vendorUpdates[v])
               /\ req' = [req EXCEPT ![p] =
                    IF DOMAIN rest = {}
                    THEN Finish([@ EXCEPT !.vendorUpdates = rest], Ok)
                    ELSE [@ EXCEPT !.vendorUpdates = rest]]

(* ------------------------------- create ------------------------------- *)

\* canUserRequestPayout(userId, vendorId): the try block reads the vendor and
\* ends without a return (`return vendor?.userId === userId` is commented
\* out), so the promise resolves to undefined; the catch block returns false
canUserRequestPayout(userId, vendorId, storeOk) ==
  IF storeOk THEN FALSE ELSE FALSE

\* create(userId, dto): vendor.findUnique and its guard
CreateFindVendor(p, userId, dto) ==
  /\ CanStart(p)
  /\ UNCHANGED others
  /\ now' = now + 1
  /\ UNCHANGED <<payouts, balance, completedAmount>>
  /\ \E storeOk \in BOOLEAN :
       LET r == [Begin(p, "create", "none") EXCEPT !.userId = userId] IN
       req' = [req EXCEPT ![p] =
         IF ~storeOk THEN Finish(r, Internal)
         ELSE IF dto.vendorId \notin DOMAIN vendors
         THEN Finish(r, VendorMissing)
         ELSE [r EXCEPT !.pc = "create_authorize", !.createDto = dto]]

\* create: canUserRequestPayout, the minimum-amount guard and
\* vendorPayout.create (the balance guard before them is commented out);
\* the insert follows the permission check, which lets no call through
CreateAuthorize(p) ==
  /\ req[p].pc = "create_authorize"
  /\ UNCHANGED others
  /\ UNCHANGED <<balance, now, completedAmount>>
  /\ \E storeOk \in BOOLEAN :
       LET dto == req[p].createDto IN
       IF ~canUserRequestPayout(req[p].userId, dto.vendorId, storeOk)
       THEN /\ req' = [req EXCEPT ![p] = Finish(@, Forbidden)]
            /\ UNCHANGED payouts
       ELSE IF dto.amount < MIN_PAYOUT_AMOUNT
       THEN /\ req' = [req EXCEPT ![p] = Finish(@, BelowMinimum)]
            /\ UNCHANGED payouts
       ELSE IF NewPayoutId \in DOMAIN payouts
                 \/ dto.vendorId \notin DOMAIN vendors
       THEN /\ req' = [req EXCEPT ![p] = Finish(@, Internal)]
            /\ UNCHANGED payouts
       ELSE /\ payouts' =
                 [i \in DOMAIN payouts \cup {NewPayoutId} |->
                    IF i = NewPayoutId
                    THEN [vendorId    |-> dto.vendorId,
                          requestedBy |-> req[p].userId,
                          amount      |-> dto.amount,
                          reference   |-> dto.reference,
                          status      |-> PENDING,
                          processedAt |-> NullDate]
                    ELSE payouts[i]]
            /\ req' = [req EXCEPT ![p] =
                 [Finish(@, Ok) EXCEPT !.id = NewPayoutId]]

(* ------------------------------ behaviour ----------------------------- *)

Next ==
  \E p \in Procs :
    \/ \E userId \in Users, dto \in CreateVendorPayoutDto :
         CreateFindVendor(p, userId, dto)
    \/ CreateAuthorize(p)
    \/ \E id \in PayoutIds : ApproveFind(p, id)
    \/ ApproveUpdate(p)
    \/ ApproveBalance(p)
    \/ \E id \in PayoutIds, reason \in Reasons : RejectFind(p, id, reason)
    \/ RejectUpdate(p)
    \/ \E id \in PayoutIds, userId \in Users : CancelFind(p, id, userId)
    \/ CancelDelete(p)
    \/ \E id \in PayoutIds : RemoveFind(p, id)
    \/ RemoveDelete(p)
    \/ \E id \in PayoutIds, dto \in UpdateVendorPayoutDto :
         UpdateFind(p, id, dto)
    \/ UpdateBalance(p)
    \/ UpdateWrite(p)
    \/ \E ids \in SUBSET PayoutIds : BulkUpdateMany(p, ids)
    \/ BulkFindMany(p)
    \/ BulkBalance(p)

Spec == Init /\ [][Next]_vars

(* ---------------------------- vendor_orders --------------------------- *)

\* the customer orders (table orders) and the ids a vendor order may get
Orders == {"o1", "o2"}
VendorOrderIds == {"vo1", "vo2", "vo3"}

\* INSERT INTO vendor_orders as the schema admits it: the primary key on id
\* and the two foreign keys are the table's only constraints (the one
\* unique index of the migration is vendors_slug_key); the money columns
\* carry no constraint and are left out
InsertVendorOrder(id, vendorId, orderId) ==
  /\ id \notin DOMAIN vendorOrders
  /\ vendorId \in DOMAIN vendors
  /\ orderId \in Orders
  /\ vendorOrders' =
       [i \in DOMAIN vendorOrders \cup {id} |->
          IF i = id THEN [vendorId |-> vendorId, orderId |-> orderId]
          ELSE vendorOrders[i]]
  /\ UNCHANGED commissionStore
  /\ UNCHANGED <<payouts, balance, now, req, completedAmount, vendors,
                 products>>

OrdersNext ==
  \E id \in VendorOrderIds, vendorId \in Vendors, orderId \in Orders :
    InsertVendorOrder(id, vendorId, orderId)

SpecOrders == Init /\ [][OrdersNext]_vars

(* ------------------------------- vendors ------------------------------ *)

VendorIds == Vendors \cup NewVendorIds

\* generateSlug(name): lower case, blanks to hyphens
generateSlug(name) ==
  CASE name = "Shop A" -> "shop-a"
    [] name = "Shop B" -> "shop-b"
    [] name = "Shop C" -> "shop-c"
    [] name = "Shop D" -> "shop-d"
    [] OTHER -> name

\* the rows of table t that belong to vendor v
RowsOf(t, v) == {i \in DOMAIN t : t[i].vendorId = v}

\* the rows of table t left by ON DELETE CASCADE when vendor v goes
Cascade(t, v) == [i \in DOMAIN t \ RowsOf(t, v) |-> t[i]]

\* vendors_slug_key: another vendor already has the slug
SlugTaken(slug, id) ==
  \E v \in DOMAIN vendors \ {id} : vendors[v].slug = slug

\* create(ownerId, dto): user.findUnique for the owner; isAdmin is the
\* caller's role, which the controller does not look at
VendorCreateFindOwner(p, ownerId, isAdmin, dto) ==
  /\ CanStart(p)
  /\ now' = now + 1
  /\ UNCHANGED commissionStore
  /\ UNCHANGED <<payouts, balance, completedAmount, vendors, products,
                 vendorOrders>>
  /\ \E storeOk \in BOOLEAN :
       LET r == [Begin(p, "vendor_create", "none") EXCEPT
                   !.userId = ownerId, !.isAdmin = isAdmin] IN
       req' = [req EXCEPT ![p] =
         IF ~storeOk THEN Finish(r, Internal)
         ELSE IF ownerId \notin Owners THEN Finish(r, OwnerMissing)
         ELSE [r EXCEPT !.pc = "vcreate_existing", !.vendorDto = dto]]

\* create: vendor.findFirst({ where: { ownerId } })
VendorCreateFindExisting(p) ==
  /\ req[p].pc = "vcreate_existing"
  /\ UNCHANGED commissionStore
  /\ UNCHANGED <<payouts, balance, now, completedAmount, vendors, products,
                 vendorOrders>>
  /\ \E storeOk \in BOOLEAN :
       req' = [req EXCEPT ![p] =
         IF ~storeOk THEN Finish(@, Internal)
         ELSE IF \E v \in DOMAIN vendors : vendors[v].ownerId = @.userId
         THEN Finish(@, AlreadyVendor)
         ELSE [@ EXCEPT !.pc = "vcreate_insert"]]

\* create: vendor.create({ data: { name, slug, ownerId, ...vendorData } });
\* vendorData carries the DTO's status when one was sent, else the column
\* default applies
VendorCreateInsert(p) ==
  /\ req[p].pc = "vcreate_insert"
  /\ UNCHANGED commissionStore
  /\ UNCHANGED <<payouts, balance, now, completedAmount, products,
                 vendorOrders>>
  /\ \E storeOk \in BOOLEAN :
       LET dto == req[p].vendorDto
           vendorSlug == IF dto.slug # Absent THEN dto.slug
                         ELSE generateSlug(dto.name)
           free == NewVendorIds \ DOMAIN vendors
           id == IF "v3" \in free THEN "v3" ELSE "v4"
       IN
       IF ~storeOk \/ free = {}
       THEN /\ req' = [req EXCEPT ![p] = Finish(@, Internal)]
            /\ UNCHANGED vendors
       ELSE IF SlugTaken(vendorSlug, id)
       THEN /\ req' = [req EXCEPT ![p] = Finish(@, Conflict)]
            /\ UNCHANGED vendors
       ELSE /\ vendors' =
                 [v \in DOMAIN vendors \cup {id} |->
                    IF v = id
                    THEN [ownerId |-> req[p].userId,
                          status  |-> IF dto.status # Absent THEN dto.status
                                      ELSE "PENDING",
                          name    |-> dto.name,
                          slug    |-> vendorSlug]
                    ELSE vendors[v]]
            /\ req' = [req EXCEPT ![p] = Finish([@ EXCEPT !.id = id], Ok)]

\* update(id, dto, userId, isAdmin): findUnique and the ownership guard
VendorUpdateFind(p, id, userId, isAdmin, dto) ==
  /\ CanStart(p)
  /\ now' = now + 1
  /\ UNCHANGED commissionStore
  /\ UNCHANGED <<payouts, balance, completedAmount, vendors, products,
                 vendorOrders>>
  /\ \E storeOk \in BOOLEAN :
       LET r == [Begin(p, "vendor_update", id) EXCEPT
                   !.userId = userId, !.isAdmin = isAdmin] IN
       req' = [req EXCEPT ![p] =
         IF ~storeOk THEN Finish(r, Internal)
         ELSE IF id \notin DOMAIN vendors THEN Finish(r, NotFound)
         ELSE IF ~isAdmin /\ vendors[id].ownerId # userId
         THEN Finish(r, Forbidden)
         ELSE [r EXCEPT !.pc = "vupdate_write", !.vendorDto = dto]]

\* update: finalUpdateData = { ...updateData } plus name and slug when set,
\* then vendor.update
VendorUpdateWrite(p) ==
  /\ req[p].pc = "vupdate_write"
  /\ UNCHANGED commissionStore
  /\ UNCHANGED <<payouts, balance, now, completedAmount, products,
                 vendorOrders>>
  /\ \E storeOk \in BOOLEAN :
       LET id == req[p].id
           dto == req[p].vendorDto
           vendorSlug == IF dto.name # Absent /\ dto.slug = Absent
                         THEN generateSlug(dto.name) ELSE dto.slug
       IN
       IF ~storeOk
       THEN /\ req' = [req EXCEPT ![p] = Finish(@, Internal)]
            /\ UNCHANGED vendors
       ELSE IF id \notin DOMAIN vendors
       THEN /\ req' = [req EXCEPT ![p] = Finish(@, NotFound)]
            /\ UNCHANGED vendors
       ELSE IF vendorSlug # Absent /\ SlugTaken(vendorSlug, id)
       THEN /\ req' = [req EXCEPT ![p] = Finish(@, Conflict)]
            /\ UNCHANGED vendors
       ELSE /\ vendors' = [vendors EXCEPT ![id] =
                 [ownerId |-> @.ownerId,
                  status  |-> IF dto.status # Absent THEN dto.status
                              ELSE @.status,
                  name    |-> IF dto.name # Absent THEN dto.name ELSE @.name,
                  slug    |-> IF vendorSlug # Absent THEN vendorSlug
                              ELSE @.slug]]
            /\ req' = [req EXCEPT ![p] = Finish(@, Ok)]

\* updateStatus(id, status), behind @Roles(UserRole.ADMIN): findUnique
VendorStatusFind(p, id, status) ==
  /\ CanStart(p)
  /\ now' = now + 1
  /\ UNCHANGED commissionStore
  /\ UNCHANGED <<payouts, balance, completedAmount, vendors, products,
                 vendorOrders>>
  /\ \E storeOk \in BOOLEAN :
       LET r == [Begin(p, "vendor_status", id) EXCEPT !.isAdmin = TRUE] IN
       req' = [req EXCEPT ![p] =
         IF ~storeOk THEN Finish(r, Internal)
         ELSE IF id \notin DOMAIN vendors THEN Finish(r, NotFound)
         ELSE [r EXCEPT !.pc = "vstatus_write",
                        !.vendorDto = [NoVendorDto EXCEPT !.status = status]]]

\* updateStatus: vendor.update({ where: { id }, data: { status } })
VendorStatusWrite(p) ==
  /\ req[p].pc = "vstatus_write"
  /\ UNCHANGED commissionStore
  /\ UNCHANGED <<payouts, balance, now, completedAmount, products,
                 vendorOrders>>
  /\ \E storeOk \in BOOLEAN :
       LET id == req[p].id IN
       IF ~storeOk
       THEN /\ req' = [req EXCEPT ![p] = Finish(@, Internal)]
            /\ UNCHANGED vendors
       ELSE IF id \notin DOMAIN vendors
       THEN /\ req' = [req EXCEPT ![p] = Finish(@, NotFound)]
            /\ UNCHANGED vendors
       ELSE /\ vendors' =
                 [vendors EXCEPT ![id].status = req[p].vendorDto.status]
            /\ req' = [req EXCEPT ![p] = Finish(@, Ok)]

\* remove(id, userId, isAdmin): findUnique with _count of products,
\* vendorOrders and payouts, then the ownership and the three count guards
VendorRemoveFind(p, id, userId, isAdmin) ==
  /\ CanStart(p)
  /\ now' = now + 1
  /\ UNCHANGED commissionStore
  /\ UNCHANGED <<payouts, balance, completedAmount, vendors, products,
                 vendorOrders>>
  /\ \E storeOk \in BOOLEAN :
       LET r == [Begin(p, "vendor_remove", id) EXCEPT
                   !.userId = userId, !.isAdmin = isAdmin] IN
       req' = [req EXCEPT ![p] =
         IF ~storeOk THEN Finish(r, Internal)
         ELSE IF id \notin DOMAIN vendors THEN Finish(r, NotFound)
         ELSE IF ~isAdmin /\ vendors[id].ownerId # userId
         THEN Finish(r, Forbidden)
         ELSE IF \/ RowsOf(products, id) # {}
                 \/ RowsOf(vendorOrders, id) # {}
                 \/ RowsOf(payouts, id) # {}
         THEN Finish(r, HasRows)
         ELSE [r EXCEPT !.pc = "vremove_delete"]]

\* remove: vendor.delete({ where: { id } }); the foreign keys of products,
\* vendor_orders and vendor_payouts are ON DELETE CASCADE (no order item
\* names the vendor, so order_items_vendorId_fkey does not restrict)
VendorRemoveDelete(p) ==
  /\ req[p].pc = "vremove_delete"
  /\ UNCHANGED commissionStore
  /\ UNCHANGED <<balance, now, completedAmount>>
  /\ \E storeOk \in BOOLEAN :
       LET id == req[p].id IN
       IF ~storeOk
       THEN /\ req' = [req EXCEPT ![p] = Finish(@, Internal)]
            /\ UNCHANGED <<vendors, products, vendorOrders, payouts>>
       ELSE IF id \notin DOMAIN vendors
       THEN /\ req' = [req EXCEPT ![p] = Finish(@, NotFound)]
            /\ UNCHANGED <<vendors, products, vendorOrders, payouts>>
       ELSE /\ vendors' = [v \in DOMAIN vendors \ {id} |-> vendors[v]]
            /\ products' = Cascade(products, id)
            /\ vendorOrders' = Cascade(vendorOrders, id)
            /\ payouts' = Cascade(payouts, id)
            /\ req' = [req EXCEPT ![p] = Finish(@, Ok)]

\* ProductService.create(dto): category.findUnique (the categories are not
\* part of the model: the lookup finds the row or not); the DTO's vendorId
\* is kept in id
ProductCreateFindCategory(p, dto) ==
  /\ CanStart(p)
  /\ now' = now + 1
  /\ UNCHANGED commissionStore
  /\ UNCHANGED <<payouts, balance, completedAmount, vendors, products,
                 vendorOrders>>
  /\ \E storeOk \in BOOLEAN, category \in BOOLEAN :
       LET r == Begin(p, "product_create", dto.vendorId) IN
       req' = [req EXCEPT ![p] =
         IF ~storeOk THEN Finish(r, Internal)
         ELSE IF ~category THEN Finish(r, CategoryMissing)
         ELSE [r EXCEPT !.pc = "product_insert"]]

\* ProductService.create: product.create; products_vendorId_fkey rejects a
\* vendor that is not there (P2003)
ProductCreateInsert(p) ==
  /\ req[p].pc = "product_insert"
  /\ UNCHANGED commissionStore
  /\ UNCHANGED <<payouts, balance, now, completedAmount, vendors,
                 vendorOrders>>
  /\ \E storeOk \in BOOLEAN :
       LET free == ProductIds \ DOMAIN products
           id == IF "pr1" \in free THEN "pr1" ELSE "pr2"
       IN
       IF ~storeOk \/ free = {}
       THEN /\ req' = [req EXCEPT ![p] = Finish(@, Internal)]
            /\ UNCHANGED products
       ELSE IF req[p].id \notin DOMAIN vendors
       THEN /\ req' = [req EXCEPT ![p] = Finish(@, ForeignKey)]
            /\ UNCHANGED products
       ELSE /\ products' =
                 [i \in DOMAIN products \cup {id} |->
                    IF i = id THEN [vendorId |-> req[p].id]
                    ELSE products[i]]
            /\ req' = [req EXCEPT ![p] = Finish(@, Ok)]

\* the database the vendor endpoints are started on: v1 has no payout yet,
\* v2 has one
InitVendor ==
  /\ payouts = [i \in {"p3"} |-> OpeningPayouts[i]]
  /\ balance = OpeningBalance
  /\ now = 0
  /\ req = [p \in Procs |-> Idle]
  /\ completedAmount = [v \in Vendors |-> 0]
  /\ vendors = OpeningVendors
  /\ products = [i \in {} |-> 0]
  /\ vendorOrders = [i \in {} |-> 0]
  /\ settings = [i \in {} |-> 0]
  /\ tick = 0

VendorNext ==
  \E p \in Procs :
    \/ \E ownerId \in Owners \cup {UnknownUser}, isAdmin \in BOOLEAN,
          dto \in CreateVendorDto :
         VendorCreateFindOwner(p, ownerId, isAdmin, dto)
    \/ VendorCreateFindExisting(p)
    \/ VendorCreateInsert(p)
    \/ \E id \in VendorIds, userId \in Owners, isAdmin \in BOOLEAN,
          dto \in UpdateVendorDto :
         VendorUpdateFind(p, id, userId, isAdmin, dto)
    \/ VendorUpdateWrite(p)
    \/ \E id \in VendorIds, status \in VendorStatus :
         VendorStatusFind(p, id, status)
    \/ VendorStatusWrite(p)
    \/ \E id \in VendorIds, userId \in Owners, isAdmin \in BOOLEAN :
         VendorRemoveFind(p, id, userId, isAdmin)
    \/ VendorRemoveDelete(p)
    \/ \E dto \in CreateProductDto : ProductCreateFindCategory(p, dto)
    \/ ProductCreateInsert(p)
    \/ \E userId \in Users, dto \in CreateVendorPayoutDto :
         CreateFindVendor(p, userId, dto)
    \/ CreateAuthorize(p)

SpecVendor == InitVendor /\ [][VendorNext]_vars

(* -------------------------- commission settings ----------------------- *)

\* a request to the commission endpoints arrives in slot p
BeginCommission(p, op) == [Begin(p, op, "none") EXCEPT !.startedAt = now + 1]

\* everything but the commission store and the request slots
notCommission ==
  <<payouts, balance, completedAmount, vendors, products, vendorOrders>>

\* validateCommission(commission): the exception it throws, or Ok
validateCommission(commission) ==
  IF commission < 0 \/ commission > 100 THEN InvalidCommission
  ELSE IF commission > MAX_ALLOWED_COMMISSION THEN AboveCeiling
  ELSE Ok

\* findFirst({ orderBy: { updatedAt: 'desc' } }): the id of the row with the
\* latest updatedAt, 0 when there is no row
LatestSetting(store) ==
  IF DOMAIN store = {} THEN 0
  ELSE CHOOSE i \in DOMAIN store :
         \A j \in DOMAIN store : store[j].updatedAt <= store[i].updatedAt

\* commissionSetting.create({ data: { commission } }): a new row, stamped;
\* an undefined commission takes the column default 0
SettingInsert(store, stamp, commission) ==
  [i \in DOMAIN store \cup {stamp} |->
     IF i = stamp
     THEN [commission |-> IF commission = AbsentNum THEN 0 ELSE commission,
           updatedAt |-> stamp]
     ELSE store[i]]

\* commissionSetting.update({ where: { id }, data: { commission } }) with
\* a commission: the row gets the value and a new updatedAt
SettingUpdate(store, id, stamp, commission) ==
  [store EXCEPT ![id] = [commission |-> commission, updatedAt |-> stamp]]

\* create(dto): validateCommission, then findFirst() for any row
CommissionCreateFind(p, commission) ==
  /\ CanStart(p)
  /\ now' = now + 1
  /\ UNCHANGED <<notCommission, commissionStore>>
  /\ \E storeOk \in BOOLEAN :
       LET r == [BeginCommission(p, "commission_create") EXCEPT
                   !.commission = commission] IN
       req' = [req EXCEPT ![p] =
         IF validateCommission(commission) # Ok
         THEN FinishValue(r, validateCommission(commission), << >>)
         ELSE IF ~storeOk THEN FinishValue(r, Internal, << >>)
         ELSE IF DOMAIN settings # {}
         THEN FinishValue(r, AlreadyExists, << >>)
         ELSE [r EXCEPT !.pc = "ccreate_insert"]]

\* create: commissionSetting.create
CommissionCreateInsert(p) ==
  /\ req[p].pc = "ccreate_insert"
  /\ UNCHANGED <<notCommission, now>>
  /\ \E storeOk \in BOOLEAN :
       IF ~storeOk
       THEN /\ req' = [req EXCEPT ![p] = FinishValue(@, Internal, << >>)]
            /\ UNCHANGED commissionStore
       ELSE /\ tick' = tick + 1
            /\ settings' = SettingInsert(settings, tick + 1, req[p].commission)
            /\ req' = [req EXCEPT ![p] =
                 FinishValue([@ EXCEPT !.settingId = tick + 1], Ok, << >>)]

\* update(id, dto): findUnique, then validateCommission when the DTO
\* carries a commission
CommissionUpdateFind(p, id, commission) ==
  /\ CanStart(p)
  /\ now' = now + 1
  /\ UNCHANGED <<notCommission, commissionStore>>
  /\ \E storeOk \in BOOLEAN :
       LET r == [BeginCommission(p, "commission_update") EXCEPT
                   !.settingId = id, !.commission = commission] IN
       req' = [req EXCEPT ![p] =
         IF ~storeOk THEN FinishValue(r, Internal, << >>)
         ELSE IF id \notin DOMAIN settings THEN FinishValue(r, NotFound, << >>)
         ELSE IF commission # AbsentNum /\ validateCommission(commission) # Ok
         THEN FinishValue(r, validateCommission(commission), << >>)
         ELSE [r EXCEPT !.pc = "cupdate_write"]]

\* the write of update and of updateCurrent's update branch: with a
\* commission the row gets it and a new updatedAt; without one data is
\* empty, and the client may or may not stamp the row
SettingWrite(p, id) ==
  IF req[p].commission # AbsentNum
  THEN /\ tick' = tick + 1
       /\ settings' = SettingUpdate(settings, id, tick + 1, req[p].commission)
  ELSE \E stamped \in BOOLEAN :
         IF stamped
         THEN /\ tick' = tick + 1
              /\ settings' = [settings EXCEPT ![id].updatedAt = tick + 1]
         ELSE UNCHANGED commissionStore

\* update: commissionSetting.update({ where: { id }, data })
CommissionUpdateWrite(p) ==
  /\ req[p].pc = "cupdate_write"
  /\ UNCHANGED <<notCommission, now>>
  /\ \E storeOk \in BOOLEAN :
       LET id == req[p].settingId IN
       IF ~storeOk
       THEN /\ req' = [req EXCEPT ![p] = FinishValue(@, Internal, << >>)]
            /\ UNCHANGED commissionStore
       ELSE IF id \notin DOMAIN settings
       THEN /\ req' = [req EXCEPT ![p] = FinishValue(@, NotFound, << >>)]
            /\ UNCHANGED commissionStore
       ELSE /\ SettingWrite(p, id)
            /\ req' = [req EXCEPT ![p] = FinishValue(@, Ok, << >>)]

\* updateCurrent(dto): findFirst by latest updatedAt; the call of
\* validateCommission is commented out
UpdateCurrentFind(p, commission) ==
  /\ CanStart(p)
  /\ now' = now + 1
  /\ UNCHANGED <<notCommission, commissionStore>>
  /\ \E storeOk \in BOOLEAN :
       LET r == [BeginCommission(p, "update_current") EXCEPT
                   !.commission = commission] IN
       req' = [req EXCEPT ![p] =
         IF ~storeOk THEN FinishValue(r, Internal, << >>)
         ELSE [r EXCEPT !.pc = "current_write",
                        !.settingId = LatestSetting(settings)]]

\* updateCurrent: update the row that was found, or create one if none was
UpdateCurrentWrite(p) ==
  /\ req[p].pc = "current_write"
  /\ UNCHANGED <<notCommission, now>>
  /\ \E storeOk \in BOOLEAN :
       LET id == req[p].settingId IN
       IF ~storeOk
       THEN /\ req' = [req EXCEPT ![p] = FinishValue(@, Internal, << >>)]
            /\ UNCHANGED commissionStore
       ELSE IF id = 0
       THEN /\ tick' = tick + 1
            /\ settings' = SettingInsert(settings, tick + 1, req[p].commission)
            /\ req' = [req EXCEPT ![p] =
                 FinishValue([@ EXCEPT !.settingId = tick + 1], Ok, << >>)]
       ELSE IF id \notin DOMAIN settings
       THEN /\ req' = [req EXCEPT ![p] = FinishValue(@, NotFound, << >>)]
            /\ UNCHANGED commissionStore
       ELSE /\ SettingWrite(p, id)
            /\ req' = [req EXCEPT ![p] = FinishValue(@, Ok, << >>)]

\* remove(id): findUnique
CommissionRemoveFind(p, id) ==
  /\ CanStart(p)
  /\ now' = now + 1
  /\ UNCHANGED <<notCommission, commissionStore>>
  /\ \E storeOk \in BOOLEAN :
       LET r == [BeginCommission(p, "commission_remove") EXCEPT
                   !.settingId = id] IN
       req' = [req EXCEPT ![p] =
         IF ~storeOk THEN FinishValue(r, Internal, << >>)
         ELSE IF id \notin DOMAIN settings THEN FinishValue(r, NotFound, << >>)
         ELSE [r EXCEPT !.pc = "cremove_delete"]]

\* remove: commissionSetting.delete({ where: { id } })
CommissionRemoveDelete(p) ==
  /\ req[p].pc = "cremove_delete"
  /\ UNCHANGED <<notCommission, now, tick>>
  /\ \E storeOk \in BOOLEAN :
       LET id == req[p].settingId IN
       IF ~storeOk
       THEN /\ req' = [req EXCEPT ![p] = FinishValue(@, Internal, << >>)]
            /\ UNCHANGED settings
       ELSE IF id \notin DOMAIN settings
       THEN /\ req' = [req EXCEPT ![p] = FinishValue(@, NotFound, << >>)]
            /\ UNCHANGED settings
       ELSE /\ settings' = [i \in DOMAIN settings \ {id} |-> settings[i]]
            /\ req' = [req EXCEPT ![p] = FinishValue(@, Ok, << >>)]

\* resetToDefault(): findFirst by latest updatedAt, NotFound on no row
ResetFind(p) ==
  /\ CanStart(p)
  /\ now' = now + 1
  /\ UNCHANGED <<notCommission, commissionStore>>
  /\ \E storeOk \in BOOLEAN :
       LET r == BeginCommission(p, "reset_default") IN
       req' = [req EXCEPT ![p] =
         IF ~storeOk THEN FinishValue(r, Internal, << >>)
         ELSE IF DOMAIN settings = {} THEN FinishValue(r, NotFound, << >>)
         ELSE [r EXCEPT !.pc = "reset_create"]]

\* resetToDefault: commissionSetting.create({ data: { commission: 0 } })
ResetCreate(p) ==
  /\ req[p].pc = "reset_create"
  /\ UNCHANGED <<notCommission, now>>
  /\ \E storeOk \in BOOLEAN :
       IF ~storeOk
       THEN /\ req' = [req EXCEPT ![p] = FinishValue(@, Internal, << >>)]
            /\ UNCHANGED commissionStore
       ELSE /\ tick' = tick + 1
            /\ settings' = SettingInsert(settings, tick + 1, 0)
            /\ req' = [req EXCEPT ![p] =
                 FinishValue([@ EXCEPT !.settingId = tick + 1], Ok, << >>)]

RECURSIVE InsertAll(_, _, _)
\* the creates of one $transaction, in the order of the array
InsertAll(store, stamp, dtos) ==
  IF dtos = << >> THEN store
  ELSE InsertAll(SettingInsert(store, stamp + 1, Head(dtos)), stamp + 1,
                 Tail(dtos))

\* some element of the array fails validateCommission: the first that does
FirstInvalid(dtos) ==
  LET bad == {k \in 1 .. Len(dtos) : validateCommission(dtos[k]) # Ok}
  IN IF bad = {} THEN Ok
     ELSE validateCommission(dtos[CHOOSE k \in bad : \A l \in bad : k <= l])

\* bulkCreate(dtos): validate every element, then one $transaction of
\* creates
BulkCreate(p, dtos) ==
  /\ CanStart(p)
  /\ now' = now + 1
  /\ UNCHANGED notCommission
  /\ \E storeOk \in BOOLEAN :
       LET r == BeginCommission(p, "bulk_create") IN
       IF FirstInvalid(dtos) # Ok
       THEN /\ req' = [req EXCEPT ![p] =
                 FinishValue(r, FirstInvalid(dtos), << >>)]
            /\ UNCHANGED commissionStore
       ELSE IF ~storeOk
       THEN /\ req' = [req EXCEPT ![p] = FinishValue(r, Internal, << >>)]
            /\ UNCHANGED commissionStore
       ELSE /\ tick' = tick + Len(dtos)
            /\ settings' = InsertAll(settings, tick, dtos)
            /\ req' = [req EXCEPT ![p] = FinishValue(r, Ok, << >>)]

\* findCurrent(): the latest row, or the default body when there is none
\* (id: 'default' is written 0)
findCurrent(store) ==
  IF DOMAIN store = {}
  THEN [id |-> 0, commission |-> 0, isDefault |-> TRUE]
  ELSE [id |-> LatestSetting(store),
        commission |-> store[LatestSetting(store)].commission,
        isDefault |-> FALSE]

\* GET current
FindCurrent(p) ==
  /\ CanStart(p)
  /\ now' = now + 1
  /\ UNCHANGED <<notCommission, commissionStore>>
  /\ \E storeOk \in BOOLEAN :
       LET r == BeginCommission(p, "find_current") IN
       req' = [req EXCEPT ![p] =
         IF ~storeOk THEN FinishValue(r, Internal, << >>)
         ELSE FinishValue(r, Ok, findCurrent(settings))]

\* the query strings of GET history: a date (written as its stamp), a
\* string that is no date, the empty string, or no parameter
InvalidDate == -2
EmptyString == -3
HistoryDates == {AbsentNum, EmptyString, InvalidDate, 1, 2}

\* PrismaClientValidationError: BadRequestException(`Invalid data provided
\* for ${entity} operation`)
InvalidData == "BadRequestException: Invalid data provided"

\* the controller's `fromDate ? new Date(fromDate) : undefined`
ToDate(text) == IF text \in {AbsentNum, EmptyString} THEN AbsentNum ELSE text

\* a range whose lower bound is exclusive
InRange_Exclusive(row, fromDate, toDate) ==
  /\ fromDate # AbsentNum => row.updatedAt > fromDate
  /\ toDate # AbsentNum => row.updatedAt <= toDate

\* where.updatedAt = { gte: fromDate, lte: toDate }, each bound only when
\* it is given
InRange(row, fromDate, toDate) ==
  /\ fromDate # AbsentNum => row.updatedAt >= fromDate
  /\ toDate # AbsentNum => row.updatedAt <= toDate

RECURSIVE Ascending(_, _)
\* orderBy: { updatedAt: 'asc' } over the rows ids of store
Ascending(store, ids) ==
  IF ids = {} THEN << >>
  ELSE LET i == CHOOSE x \in ids :
                  \A y \in ids : store[x].updatedAt <= store[y].updatedAt
       IN <<[id |-> i, commission |-> store[i].commission,
             updatedAt |-> store[i].updatedAt]>>
            \o Ascending(store, ids \ {i})

\* getHistory(fromDate, toDate) behind the controller's conversion
GetHistory(p, fromText, toText) ==
  /\ CanStart(p)
  /\ now' = now + 1
  /\ UNCHANGED <<notCommission, commissionStore>>
  /\ \E storeOk \in BOOLEAN :
       LET fromDate == ToDate(fromText)
           toDate == ToDate(toText)
           r == [BeginCommission(p, "get_history") EXCEPT
                   !.fromDate = fromDate, !.toDate = toDate]
       IN
       req' = [req EXCEPT ![p] =
         IF InvalidDate \in {fromDate, toDate}
         THEN FinishValue(r, InvalidData, << >>)
         ELSE IF ~storeOk THEN FinishValue(r, Internal, << >>)
         ELSE FinishValue(r, Ok,
                Ascending(settings,
                          {i \in DOMAIN settings :
                             InRange(settings[i], fromDate, toDate)}))]

\* order totals in cents, and the customCommission query strings
OrderTotals == {0, 1, 2, 3, 5}
CustomCommissions == {Absent, "", "0", "25", "50", "60", "120", "-5"}

\* Number(customCommission)
NumberOf(text) ==
  CASE text = "0" -> 0
    [] text = "25" -> 25
    [] text = "50" -> 50
    [] text = "60" -> 60
    [] text = "120" -> 120
    [] text = "-5" -> 0 - 5

\* the controller's `customCommission ? Number(customCommission) : undefined`
ToCustomCommission(text) ==
  IF text = Absent \/ text = "" THEN AbsentNum ELSE NumberOf(text)

\* the (orderTotal, percentage) pairs whose product ends on half a cent and
\* whose double lies above the half, so that toFixed(2) rounds it up
CommissionTiesUp == {<<1, 50>>, <<2, 25>>, <<5, 10>>, <<5, 50>>}
VendorTiesUp == {<<1, 50>>, <<5, 10>>, <<5, 50>>}

\* Number(x.toFixed(2)) in cents, x given in hundredths of a cent
toFixed(x, tieUp) ==
  IF (x % 100) > 50 \/ ((x % 100) = 50 /\ tieUp)
  THEN (x \div 100) + 1
  ELSE x \div 100

\* the body calculateCommission returns for a total and a percentage
Calculation(orderTotal, commissionPercentage) ==
  [commissionPercentage |-> commissionPercentage,
   commissionAmount |->
     toFixed(orderTotal * commissionPercentage,
             <<orderTotal, commissionPercentage>> \in CommissionTiesUp),
   vendorAmount |->
     toFixed(orderTotal * 100 - orderTotal * commissionPercentage,
             <<orderTotal, commissionPercentage>> \in VendorTiesUp),
   orderTotal |-> orderTotal]

\* GET calculate: validateCommission on a custom percentage, else the
\* percentage of findCurrent()
CalculateCommission(p, orderTotal, customText) ==
  /\ CanStart(p)
  /\ now' = now + 1
  /\ UNCHANGED <<notCommission, commissionStore>>
  /\ \E storeOk \in BOOLEAN :
       LET customCommission == ToCustomCommission(customText)
           r == [BeginCommission(p, "calculate") EXCEPT
                   !.commission = customCommission]
       IN
       req' = [req EXCEPT ![p] =
         IF customCommission # AbsentNum
         THEN IF validateCommission(customCommission) # Ok
              THEN FinishValue(r, validateCommission(customCommission), << >>)
              ELSE FinishValue(r, Ok,
                               Calculation(orderTotal, customCommission))
         ELSE IF ~storeOk THEN FinishValue(r, Internal, << >>)
         ELSE FinishValue(r, Ok,
                Calculation(orderTotal, findCurrent(settings).commission))]

InitCommission ==
  /\ payouts = OpeningPayouts
  /\ balance = OpeningBalance
  /\ now = 0
  /\ req = [p \in Procs |-> Idle]
  /\ completedAmount = [v \in Vendors |-> 0]
  /\ vendors = OpeningVendors
  /\ products = [i \in {} |-> 0]
  /\ vendorOrders = [i \in {} |-> 0]
  /\ settings \in OpeningSettings
  /\ tick = Cardinality(DOMAIN settings)

CommissionNext ==
  \E p \in Procs :
    \/ \E commission \in CreateCommissionSettingDto :
         CommissionCreateFind(p, commission)
    \/ CommissionCreateInsert(p)
    \/ \E id \in SettingIds, commission \in UpdateCommissionSettingDto :
         CommissionUpdateFind(p, id, commission)
    \/ CommissionUpdateWrite(p)
    \/ \E commission \in UpdateCommissionSettingDto :
         UpdateCurrentFind(p, commission)
    \/ UpdateCurrentWrite(p)
    \/ \E id \in SettingIds : CommissionRemoveFind(p, id)
    \/ CommissionRemoveDelete(p)
    \/ ResetFind(p)
    \/ ResetCreate(p)
    \/ \E dtos \in BulkCreateDtos : BulkCreate(p, dtos)
    \/ FindCurrent(p)
    \/ \E fromText \in HistoryDates, toText \in HistoryDates :
         GetHistory(p, fromText, toText)

SpecCommission == InitCommission /\ [][CommissionNext]_vars

\* the calculator over the stores the service may be started on
CalculatorNext ==
  \E p \in Procs, orderTotal \in OrderTotals,
     customText \in CustomCommissions :
    CalculateCommission(p, orderTotal, customText)

SpecCalculator == InitCommission /\ [][CalculatorNext]_vars

(* ------------------------------ properties ---------------------------- *)

Terminal == {COMPLETED, REJECTED}

\* slot p receives a request in this step
Starts(p) == req[p].pc \in {"idle", "done"} /\ req'[p] # req[p]

\* the handler of slot p returns or throws in this step
Ends(p) == req[p].pc \notin {"idle", "done"} /\ req'[p].pc = "done"

Quiescent == \A p \in Procs : req[p].pc \in {"idle", "done"}

\* what has left the vendor's balance since the start
Debited(v) == OpeningBalance[v] - balance[v]

\* C1: no vendor's balance is ever below 0, and an approve that has passed
\* its guards for a payout whose amount exceeds the vendor's current balance
\* fails and leaves the balance and the payout's status as they were.
C1_ApproveWithinBalance ==
  [][/\ \A v \in Vendors : balance'[v] >= 0
     /\ \A p \in Procs :
          (/\ req[p].pc = "approve_update"
           /\ req'[p] # req[p]
           /\ req[p].id \in DOMAIN payouts
           /\ payouts[req[p].id].amount
                > balance[payouts[req[p].id].vendorId])
          => /\ req'[p].pc = "done"
             /\ req'[p].result # Ok
             /\ payouts' = payouts
             /\ balance' = balance]_vars

\* C2: two approve calls for different PENDING payouts of one vendor, each
\* amount within the balance B and the two together above B, never both
\* succeed, and the total debited from the vendor never exceeds B.
C2_OneApproveWins ==
  /\ \A v \in Vendors : Debited(v) <= OpeningBalance[v]
  /\ \A p, q \in Procs :
       ~(/\ p # q
         /\ req[p].pc = "done" /\ req[p].op = "approve" /\ req[p].result = Ok
         /\ req[q].pc = "done" /\ req[q].op = "approve" /\ req[q].result = Ok
         /\ req[p].id # req[q].id
         /\ OpeningPayouts[req[p].id].vendorId
              = OpeningPayouts[req[q].id].vendorId
         /\ LET B == OpeningBalance[OpeningPayouts[req[p].id].vendorId]
                a1 == OpeningPayouts[req[p].id].amount
                a2 == OpeningPayouts[req[q].id].amount
            IN a1 <= B /\ a2 <= B /\ a1 + a2 > B)

\* C3: whenever no handler is running and no call has failed, the total
\* debited from each vendor's balance equals the sum of the amounts of its
\* payouts that entered COMPLETED, each counted once.
C3_DebitMatchesCompletions ==
  (Quiescent /\ \A p \in Procs : req[p].result \in {Ok, NoResult})
  => \A v \in Vendors : Debited(v) = completedAmount[v]

\* C4: approve is atomic: when approve fails after its guards (at the status
\* write or at the balance debit), the payout is still PENDING with
\* processedAt unset and the balance is unchanged.
C4_ApproveAtomic ==
  [][\A p \in Procs :
       (/\ req[p].pc \in {"approve_update", "approve_balance"}
        /\ Ends(p)
        /\ req'[p].result # Ok
        /\ req[p].id \in DOMAIN payouts')
       => /\ payouts'[req[p].id].status = PENDING
          /\ payouts'[req[p].id].processedAt = NullDate
          /\ balance' = balance]_vars

\* an approve, reject or cancel call that arrives for a payout whose status
\* is COMPLETED or REJECTED
TerminalCall(p) ==
  /\ Starts(p)
  /\ req'[p].op \in {"approve", "reject", "cancel"}
  /\ req'[p].id \in DOMAIN payouts
  /\ payouts[req'[p].id].status \in Terminal

\* C5 as stated: every approve, reject or cancel call on a COMPLETED or
\* REJECTED payout, by any caller, fails with InvalidTransition (or with the
\* store's own failure) and leaves the payout unchanged.
C5_TerminalCallsInvalidTransition ==
  [][\A p \in Procs :
       TerminalCall(p)
       => /\ req'[p].pc = "done"
          /\ req'[p].result \in {OnlyPending, Internal}
          /\ payouts' = payouts]_vars

\* C5 amended: every approve, reject or cancel call on a COMPLETED or
\* REJECTED payout fails and leaves the payout unchanged; the failure is
\* InvalidTransition, except that cancel by a caller who is not the payout's
\* requester fails with Forbidden (and a failing store read gives the
\* store's own failure).
C5_TerminalCallsFail ==
  [][\A p \in Procs :
       TerminalCall(p)
       => /\ req'[p].pc = "done"
          /\ req'[p].result \in
               {Internal,
                IF /\ req'[p].op = "cancel"
                   /\ payouts[req'[p].id].requestedBy # req'[p].userId
                THEN Forbidden ELSE OnlyPending}
          /\ payouts' = payouts]_vars

\* a cancel was refused on a payout that is COMPLETED or REJECTED
C5_Witness ==
  \E p \in Procs :
    /\ req[p].pc = "done"
    /\ req[p].op = "cancel"
    /\ req[p].result \in {OnlyPending, Forbidden}
    /\ req[p].id \in DOMAIN payouts
    /\ payouts[req[p].id].status \in Terminal

\* C6: the only status changes that ever occur are PENDING -> COMPLETED and
\* PENDING -> REJECTED.
C6_StatusWriteOnceForward ==
  [][\A i \in DOMAIN payouts \cap DOMAIN payouts' :
       payouts'[i].status # payouts[i].status
       => payouts[i].status = PENDING /\ payouts'[i].status \in Terminal]_vars

\* C7: a payout has processedAt set exactly when its status is COMPLETED,
\* and a processedAt that is set is never changed afterwards.
C7_ProcessedAtOnce ==
  [][/\ \A i \in DOMAIN payouts' :
          (payouts'[i].processedAt # NullDate)
            <=> (payouts'[i].status = COMPLETED)
     /\ \A i \in DOMAIN payouts \cap DOMAIN payouts' :
          payouts[i].processedAt # NullDate
          => payouts'[i].processedAt = payouts[i].processedAt]_vars

\* the approve of payout id has written COMPLETED
ApproveCommitted(id) ==
  \E q \in Procs :
    /\ req[q].op = "approve"
    /\ req[q].id = id
    /\ \/ req[q].pc = "approve_balance"
       \/ req[q].pc = "done" /\ req[q].result = Ok

\* C8: of a cancel and an approve racing on one PENDING payout exactly one
\* takes effect: once approve has committed, cancel does not delete the
\* COMPLETED row, and an approve whose row is gone fails with NotFound and
\* debits nothing.
C8_CancelApproveRace ==
  [][\A p \in Procs :
       /\ (/\ req[p].pc = "cancel_delete"
           /\ req[p].id \in DOMAIN payouts
           /\ ApproveCommitted(req[p].id))
          => req[p].id \in DOMAIN payouts'
       /\ (/\ req[p].pc = "approve_update"
           /\ req'[p] # req[p]
           /\ req[p].id \notin DOMAIN payouts)
          => /\ req'[p].result \in {NotFound, Internal}
             /\ balance' = balance]_vars

\* C9: bulkApprove(ids) completes exactly the ids that are PENDING, leaves
\* the other rows as they are, and reduces each vendor's balance by exactly
\* the sum of the amounts of its payouts that this call moved to COMPLETED.
C9_BulkApproveDebits ==
  [][\A p \in Procs :
       /\ (Starts(p) /\ req'[p].op = "bulkApprove" /\ req'[p].pc # "done")
          => \A i \in DOMAIN payouts :
               payouts'[i] =
                 IF i \in req'[p].ids /\ payouts[i].status = PENDING
                 THEN [payouts[i] EXCEPT !.status = COMPLETED,
                                         !.processedAt = now]
                 ELSE payouts[i]
       /\ (req[p].pc = "bulk_balance" /\ req'[p].result # BalanceFailed)
          => \A v \in DOMAIN req[p].vendorUpdates
                        \ DOMAIN req'[p].vendorUpdates :
               balance[v] - balance'[v] =
                 SumAmounts(payouts, {i \in req[p].moved \cap DOMAIN payouts :
                                        payouts[i].vendorId = v})]_vars

\* C10: bulkApprove is all-or-nothing: when it fails, no payout of the batch
\* has changed status and no balance has changed.
C10_BulkAllOrNothing ==
  [][\A p \in Procs :
       (/\ req[p].op = "bulkApprove"
        /\ Ends(p)
        /\ req'[p].result # Ok)
       => /\ \A i \in req[p].moved \cap DOMAIN payouts' :
               payouts'[i].status = PENDING
          /\ balance' = balance]_vars

\* the failure the design names for an amount above the balance
\* (BadRequestException('Insufficient vendor balance for payout'))
InsufficientBalance == "BadRequestException: Insufficient vendor balance"

\* slot p runs the part of create that follows the vendor lookup
CreateDecides(p) == req[p].pc = "create_authorize" /\ req'[p] # req[p]

\* C11: create for an existing vendor, by the vendor's owner, with an amount
\* of at least MIN_PAYOUT_AMOUNT and at most the vendor's balance succeeds
\* and adds exactly one payout row: PENDING, with the given vendorId, amount
\* and reference and requestedBy = the requester.
C11_CreateSucceeds ==
  [][\A p \in Procs :
       LET dto == req[p].createDto IN
       (/\ CreateDecides(p)
        /\ dto.vendorId \in DOMAIN vendors
        /\ vendors[dto.vendorId].ownerId = req[p].userId
        /\ dto.amount >= MIN_PAYOUT_AMOUNT
        /\ dto.amount <= balance[dto.vendorId])
       => /\ req'[p].result = Ok
          /\ \E i \in DOMAIN payouts' \ DOMAIN payouts :
               /\ DOMAIN payouts' = DOMAIN payouts \cup {i}
               /\ payouts'[i] = [vendorId    |-> dto.vendorId,
                                 requestedBy |-> req[p].userId,
                                 amount      |-> dto.amount,
                                 reference   |-> dto.reference,
                                 status      |-> PENDING,
                                 processedAt |-> NullDate]]_vars

\* C12: create with an amount above the vendor's current balance fails with
\* InsufficientBalance and adds no payout row.
C12_CreateInsufficientBalance ==
  [][\A p \in Procs :
       LET dto == req[p].createDto IN
       (/\ CreateDecides(p)
        /\ dto.vendorId \in DOMAIN vendors
        /\ dto.amount > balance[dto.vendorId])
       => /\ req'[p].result = InsufficientBalance
          /\ payouts' = payouts]_vars

\* C13: every stored payout has an amount of at least MIN_PAYOUT_AMOUNT,
\* above 0, and the vendor it names exists.
C13_StoredPayoutsValid ==
  \A i \in DOMAIN payouts :
    /\ payouts[i].amount >= MIN_PAYOUT_AMOUNT
    /\ payouts[i].amount > 0
    /\ payouts[i].vendorId \in DOMAIN vendors

\* C14: cancel succeeds only on a payout that exists, is PENDING and was
\* requested by the caller; a successful cancel deletes that row, leaves
\* the other rows and every balance alone; a failed cancel changes neither
\* the payouts nor the balances.
C14_CancelOnlyOwnPending ==
  [][\A p \in Procs :
       /\ (req[p].pc = "cancel_delete" /\ req'[p].result = Ok)
          => /\ req[p].id \in DOMAIN payouts
             /\ payouts[req[p].id].status = PENDING
             /\ payouts[req[p].id].requestedBy = req[p].userId
             /\ payouts' = RowDelete(req[p].id)
             /\ balance' = balance
       /\ (/\ req'[p] # req[p]
           /\ req'[p].op = "cancel"
           /\ req'[p].pc = "done"
           /\ req'[p].result # Ok)
          => payouts' = payouts /\ balance' = balance]_vars

\* the references a payout may have been created with
OriginalReferences == {"REF", "NEW"}

\* C15: reject on a PENDING payout sets status REJECTED and keeps the
\* original reference recoverable: the reference it stores differs from the
\* one it would store for any other original reference.
C15_RejectKeepsReference ==
  [][\A p \in Procs :
       (/\ req[p].pc = "reject_update"
        /\ req'[p].result = Ok
        /\ req[p].id \in DOMAIN payouts)
       => /\ payouts'[req[p].id].status = REJECTED
          /\ \A o \in OriginalReferences \ {req[p].payout.reference} :
               RejectReference(req[p].reason,
                               [req[p].payout EXCEPT !.reference = o])
                 # payouts'[req[p].id].reference]_vars

\* C18: there is at most one vendor order for each (vendorId, orderId)
\* pair; creating a second one fails and adds no row.
C18_OneVendorOrderPerPair ==
  \A a, b \in DOMAIN vendorOrders :
    (/\ vendorOrders[a].vendorId = vendorOrders[b].vendorId
     /\ vendorOrders[a].orderId = vendorOrders[b].orderId)
    => a = b

\* C19: a vendor is deleted only when it owns no product, no vendor order
\* and no payout, and its removal takes no vendor order or payout row with
\* it, whatever runs beside the removal.
C19_VendorDeletedOnlyWhenEmpty ==
  [][\A v \in DOMAIN vendors \ DOMAIN vendors' :
       /\ RowsOf(products, v) = {}
       /\ RowsOf(vendorOrders, v) = {}
       /\ RowsOf(payouts, v) = {}
       /\ DOMAIN vendorOrders' = DOMAIN vendorOrders
       /\ DOMAIN payouts' = DOMAIN payouts]_vars

\* C20: a create or an update sent by somebody who is not an administrator
\* leaves every new vendor PENDING and every existing vendor's status as it
\* was.
C20_OwnerNeverSetsStatus ==
  [][\A p \in Procs :
       (/\ req[p].pc \in {"vcreate_insert", "vupdate_write"}
        /\ ~req[p].isAdmin
        /\ req'[p] # req[p])
       => /\ \A v \in DOMAIN vendors' \ DOMAIN vendors :
               vendors'[v].status = "PENDING"
          /\ \A v \in DOMAIN vendors' \cap DOMAIN vendors :
               vendors'[v].status = vendors[v].status]_vars

\* C29: no operation changes the amount or the vendorId of a payout row
\* that stays in the table.
C29_AmountAndVendorFixed ==
  [][\A i \in DOMAIN payouts \cap DOMAIN payouts' :
       /\ payouts'[i].amount = payouts[i].amount
       /\ payouts'[i].vendorId = payouts[i].vendorId]_vars

\* C30: the write of reject changes the status and the reference of its
\* payout and nothing else: processedAt, amount, vendorId and requestedBy
\* of the row, every other row and every balance stay as they were.
C30_RejectFrame ==
  [][\A p \in Procs :
       (req[p].pc = "reject_update" /\ req'[p].pc = "done")
       => LET id == req[p].id IN
          /\ DOMAIN payouts' = DOMAIN payouts
          /\ \A i \in DOMAIN payouts :
               IF i = id
               THEN /\ payouts'[i].processedAt = payouts[i].processedAt
                    /\ payouts'[i].amount = payouts[i].amount
                    /\ payouts'[i].vendorId = payouts[i].vendorId
                    /\ payouts'[i].requestedBy = payouts[i].requestedBy
               ELSE payouts'[i] = payouts[i]
          /\ balance' = balance]_vars

\* a reject has answered Ok and its row is REJECTED with processedAt unset
C30_Witness ==
  \E p \in Procs :
    /\ req[p].op = "reject"
    /\ req[p].result = Ok
    /\ req[p].id \in DOMAIN payouts
    /\ payouts[req[p].id].status = REJECTED
    /\ payouts[req[p].id].processedAt = NullDate

\* C21: every stored commission setting lies within [0, 50].
C21_CommissionWithinCeiling ==
  \A i \in DOMAIN settings :
    settings[i].commission >= 0
      /\ settings[i].commission <= MAX_ALLOWED_COMMISSION

\* the row inserted last (rows are named by the stamp of their insertion)
LastCreated(store) ==
  CHOOSE i \in DOMAIN store : \A j \in DOMAIN store : j <= i

\* a step in which slot p answers a call of op
Answers(p, op) ==
  /\ req'[p] # req[p]
  /\ req'[p].pc = "done"
  /\ req'[p].op = op

\* C22: findCurrent answers the zero default on an empty store and the
\* most recently created row otherwise.
C22_FindCurrentIsLastCreated ==
  [][\A p \in Procs :
       (Answers(p, "find_current") /\ req'[p].result = Ok)
       => IF DOMAIN settings = {}
          THEN req'[p].value.isDefault /\ req'[p].value.commission = 0
          ELSE req'[p].value.id = LastCreated(settings)]_vars

\* C23: a successful updateCurrent(p) leaves findCurrent at p, makes the
\* store one row if it was empty and keeps the number of rows otherwise,
\* and no updateCurrent fails with a conflict.
C23_UpdateCurrentUpserts ==
  [][\A p \in Procs :
       Answers(p, "update_current")
       => /\ req'[p].result # Conflict
          /\ req'[p].result = Ok
             => /\ req[p].commission # AbsentNum
                   => findCurrent(settings').commission = req[p].commission
                /\ Cardinality(DOMAIN settings') =
                     IF DOMAIN settings = {} THEN 1
                     ELSE Cardinality(DOMAIN settings)]_vars

\* the store after the step is the store before it and one new row of
\* commission 0
AppendsZero ==
  /\ DOMAIN settings \subseteq DOMAIN settings'
  /\ Cardinality(DOMAIN settings') = Cardinality(DOMAIN settings) + 1
  /\ \A i \in DOMAIN settings : settings'[i] = settings[i]
  /\ \A i \in DOMAIN settings' \ DOMAIN settings : settings'[i].commission = 0

\* C24: resetToDefault, from any store, appends one row with commission 0
\* and leaves the rows there unchanged (a failing store call aside).
C24_ResetAppendsFromAnyState ==
  [][\A p \in Procs :
       (Answers(p, "reset_default") /\ req'[p].result # Internal)
       => /\ req'[p].result = Ok
          /\ AppendsZero]_vars

\* C25: no step removes a setting, and no step changes the commission of a
\* setting other than the latest one.
C25_AppendOnlyLog ==
  [][/\ DOMAIN settings \subseteq DOMAIN settings'
     /\ \A i \in DOMAIN settings \cap DOMAIN settings' :
          i # LatestSetting(settings)
          => settings'[i].commission = settings[i].commission]_vars

\* C26: getHistory answers exactly the rows whose updatedAt lies within the
\* inclusive bounds that were given, each once, as they are stored, in
\* non-decreasing updatedAt order.
C26_HistoryInRangeAscending ==
  [][\A p \in Procs :
       (Answers(p, "get_history") /\ req'[p].result = Ok)
       => LET h == req'[p].value
              lo == req'[p].fromDate
              hi == req'[p].toDate
          IN
          /\ \A i \in DOMAIN settings :
               (\E k \in 1 .. Len(h) : h[k].id = i)
               <=> /\ lo = AbsentNum \/ settings[i].updatedAt >= lo
                   /\ hi = AbsentNum \/ settings[i].updatedAt <= hi
          /\ \A k \in 1 .. Len(h) :
               /\ h[k].id \in DOMAIN settings
               /\ h[k].updatedAt = settings[h[k].id].updatedAt
               /\ h[k].commission = settings[h[k].id].commission
          /\ \A k, l \in 1 .. Len(h) :
               k < l => h[k].updatedAt <= h[l].updatedAt /\ h[k].id # h[l].id]_vars

\* a getHistory with both bounds has answered two rows, the first of them
\* stamped exactly at the lower bound, and has left a stored row out
C26_Witness ==
  \E p \in Procs :
    /\ req[p].op = "get_history"
    /\ req[p].result = Ok
    /\ req[p].fromDate # AbsentNum
    /\ req[p].toDate # AbsentNum
    /\ Len(req[p].value) = 2
    /\ req[p].value[1].updatedAt = req[p].fromDate
    /\ Cardinality(DOMAIN settings) > 2

\* C27: the two amounts calculateCommission answers add up to the rounded
\* order total.
C27_CommissionIdentity ==
  \A p \in Procs :
    (req[p].op = "calculate" /\ req[p].result = Ok)
    => req[p].value.commissionAmount + req[p].value.vendorAmount
         = req[p].value.orderTotal

\* C28: with a percentage supplied, calculate fails with InvalidCommission
\* exactly when it is below 0 or above 100, and otherwise succeeds and
\* computes with that percentage.
C28_CalculateAcceptsZeroToHundred ==
  \A p \in Procs :
    (req[p].op = "calculate" /\ req[p].pc = "done"
       /\ req[p].commission # AbsentNum)
    => IF req[p].commission < 0 \/ req[p].commission > 100
       THEN req[p].result = InvalidCommission
       ELSE /\ req[p].result = Ok
            /\ req[p].value.commissionPercentage = req[p].commission

====
